---- MODULE Spec2Model ----
(***************************************************************************)
(* Snowflake identifiers (src/src/snowflake.rs) and the sequential         *)
(* generator (src/src/generator.rs).                                       *)
(*                                                                         *)
(* A u64 (and an i64, by its two's-complement bits) is the set of the      *)
(* positions of its one bits, a subset of 0..63: bit 0 is the least        *)
(* significant.  `|` is union, `&` is intersection, shifts move the        *)
(* positions and drop what leaves the 64 bits, `+` and `-` ripple a carry  *)
(* or a borrow.  u8 and u16 values are plain integers.                     *)
(***************************************************************************)
EXTENDS Integers, FiniteSets, Sequences, TLC

VARIABLES
  generator,        \* SnowflakeGenerator {worker, process, increment, epoch}
  now,              \* what Utc::now().timestamp_millis() reads (i64 bits)
  snowflake,        \* the Snowflake last returned or constructed: {} or {s}
  prev,             \* the Snowflake returned by the call before: {} or {s}
  calls,            \* generate() calls made so far
  issuedAt,         \* clock readings of the calls behind prev and snowflake
  inMs,             \* identifiers generated at the current clock reading
  peak,             \* the most identifiers generated at any one reading
  observed,         \* what an observer noted at some moment: {} or {o}
  input,            \* the arguments of the last constructor call: {} or {a}
  absolute,         \* what offset_timestamp() last returned: {} or {t}
  panicked,         \* an arithmetic overflow check aborted the program
  overflow_checks   \* the build's overflow checks (on in debug profiles)

vars == <<generator, now, snowflake, prev, calls, issuedAt, inMs, peak,
          observed, input, absolute, panicked, overflow_checks>>

----------------------------------------------------------------------------
(* 64-bit words *)

Word == 0..63

\* `n as u64` for a u8 or u16 n
as_u64(n) == {i \in 0..15 : (n \div 2^i) % 2 = 1}

RECURSIVE SumBits(_, _)
SumBits(x, i) ==
  IF i < 0 THEN 0 ELSE (IF i \in x THEN 2^i ELSE 0) + SumBits(x, i - 1)

\* `x as u8`, `x as u16`: the low bits, as an integer
as_u8(x) == SumBits(x, 7)
as_u16(x) == SumBits(x, 15)

Shl(x, n) == {i + n : i \in {j \in x : j + n < 64}}
Shr(x, n) == {i - n : i \in {j \in x : j >= n}}
BitOr(x, y) == x \cup y
BitAnd(x, y) == x \cap y

\* the carry into bit i of a + b, the borrow into bit i of a - b
Carry(a, b, i) ==
  \E j \in (a \cap b) : j < i /\ \A k \in (j + 1)..(i - 1) : k \in a \cup b
Borrow(a, b, i) ==
  \E j \in (b \ a) : j < i /\ \A k \in (j + 1)..(i - 1) : ~(k \in a /\ k \notin b)

\* a + b and a - b modulo 2^64
WrappingAdd(a, b) == {i \in Word : ((i \in a) # (i \in b)) # Carry(a, b, i)}
WrappingSub(a, b) == {i \in Word : ((i \in a) # (i \in b)) # Borrow(a, b, i)}

\* u64 a + b leaves 64 bits; i64 a - b leaves the i64 range
AddOverflowsU64(a, b) == Carry(a, b, 64)
SubOverflowsI64(a, b) ==
  /\ (63 \in a) # (63 \in b)
  /\ (63 \in WrappingSub(a, b)) # (63 \in a)

\* unsigned order
Lt(a, b) == \E i \in (b \ a) : \A k \in (a \ b) : k < i
Le(a, b) == a = b \/ Lt(a, b)

RECURSIVE FromDigits(_, _)
FromDigits(ds, acc) ==
  IF ds = <<>> THEN acc
  ELSE FromDigits(Tail(ds),
         WrappingAdd(WrappingAdd(Shl(acc, 3), Shl(acc, 1)), as_u64(Head(ds))))

\* the u64 with the given decimal digits
Decimal(ds) == FromDigits(ds, {})

----------------------------------------------------------------------------
(* src/src/lib.rs *)

AIRDASH_EPOCH == Decimal(<<1, 4, 2, 0, 0, 7, 0, 4, 0, 0, 0, 0, 0>>)

----------------------------------------------------------------------------
(* src/src/snowflake.rs *)

\* value_from_parts with the timestamp shifted by 12, the process id's offset
value_from_parts_shift12(timestamp, worker, process, increment) ==
  BitOr(BitOr(BitOr(Shl(timestamp, 12), Shl(as_u64(worker), 17)),
              Shl(as_u64(process), 12)), as_u64(increment))

value_from_parts(timestamp, worker, process, increment) ==
  LET v0 == Shl(timestamp, 22)
      v1 == BitOr(v0, Shl(as_u64(worker), 17))
      v2 == BitOr(v1, Shl(as_u64(process), 12))
      v3 == BitOr(v2, as_u64(increment))
  IN v3

\* `timestamp.timestamp_millis() - epoch as i64` aborts where the build
\* checks overflow and the difference leaves the i64 range
new_with_timestamp_overflows(timestamp, epoch) == SubOverflowsI64(timestamp, epoch)

new_with_timestamp(worker, process, increment, timestamp, epoch) ==
  LET offset_timestamp_ms == WrappingSub(timestamp, epoch)
  IN [value |-> value_from_parts(offset_timestamp_ms, worker, process, increment),
      epoch |-> epoch]

from_value(value, epoch) == [value |-> value, epoch |-> epoch]

value(self) == self.value

\* worker() reading from bit 16
worker_shift16(self) == as_u8(BitAnd(Shr(self.value, 16), as_u64(31)))

worker(self) == as_u8(BitAnd(Shr(self.value, 17), as_u64(31)))
process(self) == as_u8(BitAnd(Shr(self.value, 12), as_u64(31)))
increment(self) == as_u16(BitAnd(self.value, as_u64(4095)))
timestamp(self) == Shr(self.value, 22)
epoch(self) == self.epoch

\* `self.timestamp() + self.epoch()` on u64
offset_timestamp_overflows(self) == AddOverflowsU64(timestamp(self), epoch(self))

\* offset_timestamp() without the epoch
offset_timestamp_no_epoch(self) == timestamp(self)

offset_timestamp(self) == WrappingAdd(timestamp(self), epoch(self))

----------------------------------------------------------------------------
(* src/src/generator.rs *)

\* u16::saturating_add, and an addition that wraps at 11 bits
saturating_add(a, b) == IF a + b > 65535 THEN 65535 ELSE a + b
wrapping_add_11(a, b) == (a + b) % 2048

\* u16::wrapping_add
wrapping_add(a, b) == (a + b) % 65536

new_with_epoch(w, p, e) == [epoch |-> e, worker |-> w, process |-> p, increment |-> 0]

SnowflakeGenerator_new(w, p) == new_with_epoch(w, p, AIRDASH_EPOCH)

\* Snowflake::new: new_with_timestamp at the clock's reading
Snowflake_new(w, p, i, e) == new_with_timestamp(w, p, i, now, e)

----------------------------------------------------------------------------
(* Bounds and the sampled environment *)

MaxCalls == 4100       \* generate() calls in Spec
LongRun == 65540       \* generate() calls in SpecLong
MaxTicks == 2          \* clock advances, of one millisecond each

MaxIncrement == 4095   \* the increment field's largest value

\* The clock reads StartClock when the generator is constructed:
\* 2023-11-14T22:13:20Z, after both epochs in use and within the 42 bits of
\* milliseconds the timestamp field holds from either.
StartClock == Decimal(<<1, 7, 0, 0, 0, 0, 0, 0, 0, 0, 0, 0, 0>>)

\* The clock passes a millisecond boundary after this many calls, and the
\* observer looks after this many
TickAt == {1, MaxIncrement, MaxIncrement + 1, MaxIncrement + 2}
ObserveAt == {0, 1, 2, MaxIncrement + 1}

\* The generators constructed: the tests' (worker 8, process 26, the default
\* epoch) and one with an odd process id and the Unix epoch
Generators == {SnowflakeGenerator_new(8, 26), new_with_epoch(31, 1, {})}

Min(a, b) == IF a < b THEN a ELSE b
Max(a, b) == IF a < b THEN b ELSE a

----------------------------------------------------------------------------
(* The generator and its clock *)

Init ==
  /\ generator \in Generators
  /\ now = StartClock
  /\ snowflake = {} /\ prev = {} /\ issuedAt = <<>>
  /\ calls = 0 /\ inMs = 0 /\ peak = 0
  /\ observed = {} /\ input = {} /\ absolute = {}
  /\ panicked = FALSE
  /\ overflow_checks \in BOOLEAN

\* SnowflakeGenerator::generate (and Iterator::next, which returns it)
GenerateWithin(limit) ==
  /\ ~panicked
  /\ calls < limit
  /\ IF overflow_checks /\ new_with_timestamp_overflows(now, generator.epoch)
     THEN /\ panicked' = TRUE
          /\ UNCHANGED <<generator, snowflake, prev, issuedAt>>
     ELSE /\ snowflake' = {Snowflake_new(generator.worker, generator.process,
                                         generator.increment, generator.epoch)}
          /\ generator' = [generator EXCEPT
                             !.increment = wrapping_add(generator.increment, 1)]
          /\ prev' = snowflake
          /\ issuedAt' = IF issuedAt = <<>> THEN <<now>>
                         ELSE <<issuedAt[Len(issuedAt)], now>>
          /\ UNCHANGED panicked
  /\ calls' = calls + 1
  /\ inMs' = Min(inMs + 1, MaxIncrement + 2)
  /\ peak' = Max(peak, inMs')
  /\ UNCHANGED <<now, observed, input, absolute, overflow_checks>>

Generate == GenerateWithin(MaxCalls)

GenerateLong == GenerateWithin(LongRun)

\* The wall clock passes a millisecond boundary; it never moves backward
Tick ==
  /\ calls \in TickAt
  /\ Lt(now, WrappingAdd(StartClock, as_u64(MaxTicks)))
  /\ now' = WrappingAdd(now, as_u64(1))
  /\ inMs' = 0
  /\ UNCHANGED <<generator, snowflake, prev, calls, issuedAt, peak, observed,
                 input, absolute, panicked, overflow_checks>>

\* An observer notes the clock's reading and the identifier last returned
Observe ==
  /\ observed = {}
  /\ calls \in ObserveAt
  /\ observed' = {[t0 |-> now, at |-> calls, id |-> snowflake]}
  /\ UNCHANGED <<generator, now, snowflake, prev, calls, issuedAt, inMs, peak,
                 input, absolute, panicked, overflow_checks>>

Next == Generate \/ Tick \/ Observe

Spec == Init /\ [][Next]_vars

\* The long run: the tests' generator, past the end of its 16-bit counter
InitLong == Init /\ generator = SnowflakeGenerator_new(8, 26) /\ overflow_checks

NextLong == GenerateLong \/ Tick

SpecLong == InitLong /\ [][NextLong]_vars

----------------------------------------------------------------------------
(* The codec alone: one constructor call, then offset_timestamp() *)

\* 2^42, one more than the timestamp field holds
TimestampSpan == {42}

\* The tests' instants: 2022-07-08T09:10:11Z and 2014-07-08T09:10:11Z
TestTimestamp == Decimal(<<1, 6, 5, 7, 2, 7, 1, 4, 1, 1, 0, 0, 0>>)
TestEpoch == Decimal(<<1, 4, 0, 4, 8, 1, 0, 6, 1, 1, 0, 0, 0>>)

Workers == {0, 8, 31, 32, 255}
Processes == {0, 26, 31, 32, 255}
Increments == {0, 543, 4095, 4096, 65535}
Epochs == {{}, AIRDASH_EPOCH, TestEpoch, Word}
Timestamps ==
  {{}, AIRDASH_EPOCH, TestTimestamp, WrappingSub(TimestampSpan, as_u64(1)),
   TimestampSpan, WrappingAdd(AIRDASH_EPOCH, TimestampSpan)}
Values ==
  {{}, Word, {22}, value_from_parts(WrappingSub(TestTimestamp, TestEpoch), 8, 26, 543)}

InitCodec ==
  /\ generator = SnowflakeGenerator_new(0, 0)
  /\ now = StartClock
  /\ snowflake = {} /\ prev = {} /\ issuedAt = <<>>
  /\ calls = 0 /\ inMs = 0 /\ peak = 0
  /\ observed = {} /\ input = {} /\ absolute = {}
  /\ panicked = FALSE
  /\ overflow_checks \in BOOLEAN

\* Snowflake::new_with_timestamp
NewWithTimestamp ==
  /\ ~panicked /\ input = {}
  /\ \E w \in Workers, p \in Processes, i \in Increments,
        t \in Timestamps, e \in Epochs :
       /\ input' = {[op |-> "new_with_timestamp", worker |-> w, process |-> p,
                     increment |-> i, timestamp |-> t, epoch |-> e, value |-> {}]}
       /\ IF overflow_checks /\ new_with_timestamp_overflows(t, e)
          THEN panicked' = TRUE /\ UNCHANGED snowflake
          ELSE snowflake' = {new_with_timestamp(w, p, i, t, e)} /\ UNCHANGED panicked
  /\ UNCHANGED <<generator, now, prev, calls, issuedAt, inMs, peak, observed,
                 absolute, overflow_checks>>

\* Snowflake::from_value
FromValue ==
  /\ ~panicked /\ input = {}
  /\ \E v \in Values, e \in Epochs :
       /\ input' = {[op |-> "from_value", worker |-> 0, process |-> 0,
                     increment |-> 0, timestamp |-> {}, epoch |-> e, value |-> v]}
       /\ snowflake' = {from_value(v, e)}
  /\ UNCHANGED <<generator, now, prev, calls, issuedAt, inMs, peak, observed,
                 absolute, panicked, overflow_checks>>

\* Snowflake::offset_timestamp: the u64 addition aborts on overflow where the
\* build checks it, and wraps where it does not
OffsetTimestamp ==
  /\ ~panicked /\ absolute = {}
  /\ \E self \in snowflake :
       IF overflow_checks /\ offset_timestamp_overflows(self)
       THEN panicked' = TRUE /\ UNCHANGED absolute
       ELSE absolute' = {offset_timestamp(self)} /\ UNCHANGED panicked
  /\ UNCHANGED <<generator, now, snowflake, prev, calls, issuedAt, inMs, peak,
                 observed, input, overflow_checks>>

NextCodec == NewWithTimestamp \/ FromValue \/ OffsetTimestamp

SpecCodec == InitCodec /\ [][NextCodec]_vars

----------------------------------------------------------------------------
(* Properties *)

InRange(a) ==
  /\ a.op = "new_with_timestamp"
  /\ a.worker \in 0..31 /\ a.process \in 0..31 /\ a.increment \in 0..MaxIncrement

\* the timestamp offset new_with_timestamp packs for the arguments a
Offset(a) == WrappingSub(a.timestamp, a.epoch)

\* the i64 wall-clock time a.timestamp is at or after the u64 epoch a.epoch
AtOrAfterEpoch(a) == 63 \notin a.timestamp /\ Le(a.epoch, a.timestamp)

\* C1: every identifier a generator (worker and process in 0..31) returns
\* reports the generator's worker and process, after any number of calls.
C1_FieldFidelity ==
  \A s \in snowflake :
    worker(s) = generator.worker /\ process(s) = generator.process

\* C2, as claimed: of two successive identifiers the second's packed value
\* is at least the first's, when no clock reading has seen 4096 identifiers.
C2_NonDecreasing ==
  \A a \in prev, b \in snowflake :
    peak <= MaxIncrement => Le(value(a), value(b))

\* C2, amended: the same, when moreover the clock advanced between the two
\* calls or the first identifier's increment() is not 4095.
C2_NonDecreasingUnlessWrapped ==
  \A a \in prev, b \in snowflake :
    (/\ peak <= MaxIncrement
     /\ Lt(issuedAt[1], issuedAt[2]) \/ increment(a) # MaxIncrement)
    => Le(value(a), value(b))

\* the increment field wraps across a millisecond boundary and the packed
\* value still grows
C2_Witness ==
  \E a \in prev, b \in snowflake :
    /\ peak <= MaxIncrement
    /\ increment(a) = MaxIncrement /\ increment(b) = 0
    /\ Lt(issuedAt[1], issuedAt[2])
    /\ Lt(value(a), value(b))

\* C3: an identifier returned earlier and the one returned now have distinct
\* packed values, when no clock reading has seen more than 4096 identifiers.
C3_Distinct ==
  \A o \in observed : \A a \in o.id, b \in snowflake :
    (o.at < calls /\ peak <= MaxIncrement + 1) => value(a) # value(b)

\* the first identifier and the 4097th agree in worker, process and increment
\* and differ in the timestamp alone
C3_Witness ==
  \E o \in observed : \E a \in o.id, b \in snowflake :
    /\ o.at = 1 /\ calls = MaxIncrement + 2 /\ peak <= MaxIncrement + 1
    /\ worker(a) = worker(b) /\ process(a) = process(b)
    /\ increment(a) = increment(b)
    /\ value(a) # value(b)

\* C4: the n-th identifier of a fresh generator reports
\* increment() = (n - 1) mod 4096.
C4_IncrementSequence ==
  \A s \in snowflake : increment(s) = (calls - 1) % (MaxIncrement + 1)

\* the 65537th identifier, built after the 16-bit counter has wrapped
C4_Witness ==
  calls = 65537 /\ generator.increment = 1 /\ \E s \in snowflake : increment(s) = 0

\* C5: packing masks each field to its width: the value is
\* ((offset mod 2^42) << 22) | ((worker mod 32) << 17)
\*   | ((process mod 32) << 12) | (increment mod 4096).
C5_Masked ==
  \A a \in input, s \in snowflake :
    a.op = "new_with_timestamp" =>
      value(s) = BitOr(BitOr(BitOr(Shl(BitAnd(Offset(a), 0..41), 22),
                                   Shl(as_u64(a.worker % 32), 17)),
                             Shl(as_u64(a.process % 32), 12)),
                       as_u64(a.increment % 4096))

\* C6: fields in range, packed and read back, are the fields packed.
C6_RoundTrip ==
  \A a \in input, s \in snowflake :
    (InRange(a) /\ Lt(Offset(a), TimestampSpan)) =>
      /\ worker(s) = a.worker
      /\ process(s) = a.process
      /\ increment(s) = a.increment
      /\ timestamp(s) = Offset(a)

\* every field at its maximum
C6_Witness ==
  \E a \in input, s \in snowflake :
    /\ InRange(a)
    /\ a.worker = 31 /\ a.process = 31 /\ a.increment = MaxIncrement
    /\ Offset(a) = 0..41
    /\ worker(s) = 31 /\ process(s) = 31 /\ increment(s) = MaxIncrement
    /\ timestamp(s) = 0..41

\* C7, as claimed: for every epoch E and time W >= E, new_with_timestamp
\* gives timestamp() = W - E and offset_timestamp() = W.
C7_EpochArithmetic ==
  \A a \in input, s \in snowflake :
    (InRange(a) /\ AtOrAfterEpoch(a)) =>
      /\ timestamp(s) = Offset(a)
      /\ ~panicked
      /\ \A t \in absolute : t = a.timestamp

\* C7, amended: the same for E <= W < E + 2^42.
C7_EpochArithmeticIn42Bits ==
  \A a \in input, s \in snowflake :
    (InRange(a) /\ AtOrAfterEpoch(a) /\ Lt(Offset(a), TimestampSpan)) =>
      /\ timestamp(s) = Offset(a)
      /\ ~panicked
      /\ \A t \in absolute : t = a.timestamp

\* the tests' instants, read back
C7_Witness ==
  \E a \in input :
    /\ InRange(a) /\ a.timestamp = TestTimestamp /\ a.epoch = TestEpoch
    /\ absolute = {TestTimestamp}

\* C8: an identifier generated after the clock read t0 (epoch <= t0) has
\* offset_timestamp() >= t0, however many the generator produced before.
C8_TimestampFloor ==
  \A o \in observed, s \in snowflake :
    (o.at < calls /\ Le(generator.epoch, o.t0)) =>
      /\ ~offset_timestamp_overflows(s)
      /\ Le(o.t0, offset_timestamp(s))

\* t0 read after 4096 identifiers and a clock advance, one generated since
C8_Witness ==
  \E o \in observed, s \in snowflake :
    /\ o.at = MaxIncrement + 1 /\ o.at < calls
    /\ Lt(StartClock, o.t0)
    /\ Le(o.t0, offset_timestamp(s))

\* C9: from_value(v, e) keeps v and e, and no accessor on the result fails.
C9_AccessorsTotal ==
  \A a \in input :
    a.op = "from_value" =>
      /\ ~panicked
      /\ \A s \in snowflake : value(s) = a.value /\ epoch(s) = a.epoch

\* C10: the stored counter starts at 0 and each generate() takes it from i
\* to (i + 1) mod 4096, so after n calls it is n mod 4096.
C10_CounterMod4096 ==
  generator.increment = calls % (MaxIncrement + 1)

====
